---------------------------- MODULE Spec2Model ----------------------------
(* MCcubed/plots/mcplots.py: the five renderers trace, pairwise,          *)
(* histogram, RMS and modelfit, and the pyplot figures and files they     *)
(* act on.                                                                *)
(*                                                                        *)
(* A figure is the sequence of the drawing commands issued on it since    *)
(* its last plt.clf(); a command is a record [cmd, subplot, ...].         *)
(* Arrays are sequences; an index the code computes (np.where, lexsort,   *)
(* the loop variables i, j, k, h) keeps the code's 0-based value and is   *)
(* shifted by one only where a sequence is read.  An optional argument    *)
(* is None (the empty tuple) or the value itself; an optional scalar or   *)
(* string is wrapped in a 1-tuple.  Floats are integers, and a quotient   *)
(* is the pair <<numerator, denominator>>.                                *)
EXTENDS Integers, Sequences, FiniteSets, TLC

VARIABLES
  figs,    \* pyplot's figures: figure number -> commands drawn on it
  files,   \* the file system: file name -> <<figure saved>>, or None
  call,    \* the renderer call in progress (or last made): op and arguments
  locals,  \* the local variables of the last completed call
  pc       \* "call": the call is about to run; "done": it has returned

vars == <<figs, files, call, locals, pc>>

None == <<>>

--------------------------------------------------------------------------
(* Bounds of the input sets.                                              *)

MaxSamples == 4      \* trace: rows of the posterior
MaxChainId == 2      \* trace: largest chain index in Zchain
MaxBurnin == 1       \* trace: largest burnin
MaxThinning == 2     \* trace: largest thinning stride
MaxPars == 3         \* pairwise: columns of the posterior
MaxBins == 2         \* pairwise: largest nbins
MaxLevels == 3       \* pairwise: largest nlevels
MaxHistPars == 12    \* histogram: columns of the posterior
MaxHistSamples == 2  \* histogram: rows of the posterior
MaxRms == 2          \* RMS: length of the five arrays
MaxData == 12        \* modelfit: length of the data
MaxNbins == 12       \* modelfit: largest nbins

--------------------------------------------------------------------------
(* numpy                                                                  *)

Max(a, b) == IF a >= b THEN a ELSE b
Min(a, b) == IF a <= b THEN a ELSE b

\* np.amax / np.amin of a non-empty integer array
Amax(s) == CHOOSE m \in {s[k] : k \in DOMAIN s} : \A k \in DOMAIN s : s[k] <= m
Amin(s) == CHOOSE m \in {s[k] : k \in DOMAIN s} : \A k \in DOMAIN s : s[k] >= m

\* s[0::step]
Stride(s, step) ==
  [k \in 1..((Len(s) + step - 1) \div step) |-> s[(k - 1) * step + 1]]

\* s[n:]  (n >= 0)
From(s, n) == IF n >= Len(s) THEN <<>> ELSE SubSeq(s, n + 1, Len(s))

\* posterior[:, i]  (i 0-based)
Column(posterior, i) == [r \in 1..Len(posterior) |-> posterior[r][i + 1]]

\* np.where(b)[0]: the 0-based indices of the true entries, ascending
Where(b) ==
  LET F[n \in 0..Len(b)] ==
        IF n = 0 THEN <<>>
        ELSE IF b[n] THEN Append(F[n - 1], n - 1) ELSE F[n - 1]
  IN  F[Len(b)]

\* s[idx] for an index array idx (0-based indices)
Take(s, idx) == [k \in 1..Len(idx) |-> s[idx[k] + 1]]

\* s[mask] for a boolean mask
Mask(s, good) == Take(s, Where(good))

\* np.ediff1d(s)
Ediff1d(s) ==
  IF Len(s) <= 1 THEN <<>> ELSE [k \in 1..(Len(s) - 1) |-> s[k + 1] - s[k]]

\* Lexsort without the sort: the samples stay in input order
LexsortUnsorted(keys) == [k \in 1..Len(keys) |-> k - 1]

\* np.lexsort([keys]): the stable argsort of keys (0-based indices).
\* Index n-1 is inserted behind every earlier index whose key is <= its own.
Lexsort(keys) ==
  LET Insert(sorted, x) ==
        LET before == SelectSeq(sorted, LAMBDA y : keys[y + 1] <= keys[x + 1])
            after  == SelectSeq(sorted, LAMBDA y : keys[y + 1] > keys[x + 1])
        IN  before \o <<x>> \o after
      F[n \in 0..Len(keys)] ==
        IF n = 0 THEN <<>> ELSE Insert(F[n - 1], n - 1)
  IN  F[Len(keys)]

--------------------------------------------------------------------------
(* pyplot                                                                 *)

\* Clf that clears nothing
ClfKeeps(fig) == fig

\* plt.clf(): the current figure loses every command drawn on it
Clf(fig) == <<>>

\* plt.savefig(savefile), under "if savefile is not None"
Savefig(fs, savefile, fig) ==
  IF savefile = None THEN fs ELSE [fs EXCEPT ![savefile[1]] = <<fig>>]

--------------------------------------------------------------------------
(* trace                                                                  *)

\* TraceGood with the burn-in cut once from the head of the whole array
\* instead of from every chain
TraceGoodGlobalBurnin(Zchain, burnin) ==
  [k \in 1..Len(Zchain) |-> Zchain[k] >= 0 /\ k - 1 >= burnin]

\* the mask `good` after the loop over the chains 0..nchains-1
TraceGood(Zchain, burnin) ==
  LET nchains == Amax(Zchain) + 1
      hit(c)  == From(Where([k \in 1..Len(Zchain) |-> Zchain[k] = c]), burnin)
      G[c \in 0..nchains] ==
        IF c = 0 THEN [k \in 1..Len(Zchain) |-> FALSE]
        ELSE [k \in 1..Len(Zchain) |->
                G[c - 1][k] \/ \E n \in 1..Len(hit(c - 1)) : hit(c - 1)[n] = k - 1]
  IN  G[nchains]

\* the local variables of trace before the plot is made
TraceLocals(c) ==
  IF c.Zchain = None
  THEN [posterior |-> c.posterior, Zchain |-> None, xsep |-> None,
        npars |-> Len(c.posterior[1]),
        xmax |-> Len(Stride(c.posterior, c.thinning))]
  ELSE
    LET good  == TraceGood(c.Zchain, c.burnin)
        post1 == Mask(c.posterior, good)
        Z1    == Mask(c.Zchain, good)
        zsort == Lexsort(Z1)
        post2 == Take(post1, zsort)
        Z2    == Take(Z1, zsort)
        diff  == Ediff1d(Stride(Z2, c.thinning))
        xsep  == Where([k \in 1..Len(diff) |-> diff[k] # 0])
    IN  [posterior |-> post2, Zchain |-> Z2, xsep |-> xsep,
         npars |-> Len(c.posterior[1]),
         xmax |-> Len(Stride(post2, c.thinning))]

\* the commands of the subplot of parameter i (0-based)
TracePanel(c, l, i) ==
  LET sub == <<l.npars, 1, i + 1>>
  IN  <<[cmd |-> "plot", subplot |-> sub,
         y |-> Stride(Column(l.posterior, i), c.thinning)]>>
      \o (IF c.Zchain # None
          THEN <<[cmd |-> "vlines", subplot |-> sub, x |-> l.xsep]>>
          ELSE <<>>)
      \o <<[cmd |-> "xlim", subplot |-> sub, lim |-> <<0, l.xmax>>]>>

\* the figure after the loop over the parameters
TraceDraw(fig, c, l) ==
  LET F[n \in 0..l.npars] ==
        IF n = 0 THEN fig ELSE F[n - 1] \o TracePanel(c, l, n - 1)
  IN  F[l.npars]

trace ==
  /\ pc = "call"
  /\ call.op = "trace"
  /\ LET l   == TraceLocals(call)
         fig == TraceDraw(Clf(figs[call.fignum]), call, l)
     IN  /\ locals' = l
         /\ figs' = [figs EXCEPT ![call.fignum] = fig]
         /\ files' = Savefig(files, call.savefile, fig)
  /\ pc' = "done"
  /\ UNCHANGED call

--------------------------------------------------------------------------
(* pairwise                                                               *)

\* The bin (0-based) of value v among nbins equal bins over [lo, hi], the
\* smallest and largest of the samples, as np.histogram2d(bins=nbins) lays
\* them: the last bin is closed on the right, and for lo = hi the range is
\* widened to [lo - 0.5, hi + 0.5].
BinOf(v, lo, hi, nbins) ==
  IF lo = hi THEN ((2 * (v - lo) + 1) * nbins) \div 2
  ELSE Min(((v - lo) * nbins) \div (hi - lo), nbins - 1)

\* the ends of the bin edges, x[0] and x[-1], in halves
EdgeEnds(s) ==
  IF Amin(s) = Amax(s) THEN <<2 * Amin(s) - 1, 2 * Amax(s) + 1>>
  ELSE <<2 * Amin(s), 2 * Amax(s)>>

\* h of "h,x,y = np.histogram2d(x, y, bins=nbins)": h[a][b] counts the
\* samples in x-bin a-1 and y-bin b-1
Histogram2d(x, y, nbins) ==
  [a \in 1..nbins |-> [b \in 1..nbins |->
     Cardinality({r \in 1..Len(x) :
        /\ BinOf(x[r], Amin(x), Amax(x), nbins) = a - 1
        /\ BinOf(y[r], Amin(y), Amax(y), nbins) = b - 1})]]

\* h.T
Transpose(h) == [b \in 1..Len(h) |-> [a \in 1..Len(h) |-> h[a][b]]]

\* np.amax(h)
Amax2d(h) == Amax([a \in 1..Len(h) |-> Amax(h[a])])

\* list(np.linspace(start, stop, num)), each value a quotient
Linspace(start, stop, num) ==
  IF num = 1 THEN <<<<start, 1>>>>
  ELSE [t \in 1..num |-> <<start * (num - 1) + (t - 1) * (stop - start), num - 1>>]

\* the (i, j) the two nested loops visit, in order: j over the rows
\* 1..npars-1, i over the columns 0..npars-2
LoopPairs(npars) ==
  [t \in 1..((npars - 1) * (npars - 1)) |->
     <<(t - 1) % (npars - 1), 1 + (t - 1) \div (npars - 1)>>]

\* what the gathering loop appends for the pair (i, j)
GatherOne(c, i, j) ==
  LET x == Stride(Column(c.posterior, i), c.thinning)
      y == Stride(Column(c.posterior, j), c.thinning)
      h == Histogram2d(x, y, c.nbins)
  IN  [hist |-> Transpose(h), xran |-> EdgeEnds(x), yran |-> EdgeEnds(y),
       lmax |-> Amax2d(h) + 1]

\* hist, xran, yran and lmax after the gathering loop
Gather(c, npars) ==
  LET pairs == SelectSeq(LoopPairs(npars), LAMBDA p : p[2] > p[1])
  IN  [k \in 1..Len(pairs) |-> GatherOne(c, pairs[k][1], pairs[k][2])]

\* Lmax without the reset to the absolute maximum
LmaxPerPanel(c, npars, gathered) ==
  [k \in 1..Len(gathered) |-> gathered[k].lmax]

\* lmax after "if absolute_dens:"
Lmax(c, npars, gathered) ==
  LET lmax == [k \in 1..Len(gathered) |-> gathered[k].lmax]
  IN  IF c.absolute_dens
      THEN [k \in 1..(npars * (npars + 1) * 2) |-> Amax(lmax)]
      ELSE lmax

\* the commands of one pass of the inner plotting loop with j > i
PairPanel(c, npars, g, lmax, i, j, h, k) ==
  LET sub == <<npars - 1, npars - 1, h>>
  IN  (IF i = 0 THEN <<[cmd |-> "ylabel", subplot |-> sub, par |-> j]>> ELSE <<>>)
      \o (IF j = npars - 1
          THEN <<[cmd |-> "xlabel", subplot |-> sub, par |-> i]>> ELSE <<>>)
      \o <<[cmd |-> "contourf", subplot |-> sub, hist |-> g[k + 1].hist,
            levels |-> <<<<0, 1>>>> \o Linspace(1, lmax[k + 1], c.nlevels),
            extent |-> g[k + 1].xran \o g[k + 1].yran]>>

\* PairLoop with "h += 1" inside "if j > i"
PairLoopHInside(fig, c, npars, g, lmax) ==
  LET pairs == LoopPairs(npars)
      F[t \in 0..Len(pairs)] ==
        IF t = 0 THEN [fig |-> fig, h |-> 1, k |-> 0]
        ELSE LET s == F[t - 1]
                 i == pairs[t][1]
                 j == pairs[t][2]
             IN  IF j > i
                 THEN [fig |-> s.fig \o PairPanel(c, npars, g, lmax, i, j, s.h, s.k),
                       h |-> s.h + 1, k |-> s.k + 1]
                 ELSE s
  IN  F[Len(pairs)]

\* fig, h and k after the plotting loops
PairLoop(fig, c, npars, g, lmax) ==
  LET pairs == LoopPairs(npars)
      F[t \in 0..Len(pairs)] ==
        IF t = 0 THEN [fig |-> fig, h |-> 1, k |-> 0]
        ELSE LET s == F[t - 1]
                 i == pairs[t][1]
                 j == pairs[t][2]
             IN  IF j > i
                 THEN [fig |-> s.fig \o PairPanel(c, npars, g, lmax, i, j, s.h, s.k),
                       h |-> s.h + 1, k |-> s.k + 1]
                 ELSE [s EXCEPT !.h = s.h + 1]
  IN  F[Len(pairs)]

\* "if npars == 1: return"
PairwiseSkips(c) == Len(c.posterior[1]) = 1

pairwise ==
  /\ pc = "call"
  /\ call.op = "pairwise"
  /\ IF PairwiseSkips(call)
     THEN /\ locals' = [npars |-> 1]
          /\ UNCHANGED <<figs, files>>
     ELSE LET npars == Len(call.posterior[1])
              g     == Gather(call, npars)
              lmax  == Lmax(call, npars, g)
              end   == PairLoop(Clf(figs[call.fignum]), call, npars, g, lmax)
              fig   == end.fig \o <<[cmd |-> "colorbar", nlevels |-> call.nlevels]>>
          IN  /\ locals' = [npars |-> npars, lmax |-> lmax, h |-> end.h, k |-> end.k]
              /\ figs' = [figs EXCEPT ![call.fignum] = fig]
              /\ files' = Savefig(files, call.savefile, fig)
  /\ pc' = "done"
  /\ UNCHANGED call

--------------------------------------------------------------------------
(* histogram                                                              *)

HistBins == 25

\* vals of plt.hist(x, bins=nbins): the count of every bin
Histogram1d(x, nbins) ==
  [a \in 1..nbins |->
     Cardinality({r \in 1..Len(x) : BinOf(x[r], Amin(x), Amax(x), nbins) = a - 1})]

\* "if np.ndim(posterior) == 1: posterior = np.expand_dims(posterior, axis=1)"
HistPosterior(c) ==
  IF c.ndim = 1 THEN [r \in 1..Len(c.posterior) |-> <<c.posterior[r]>>]
  ELSE c.posterior

\* HistLayout with "elif npars >= 4" for the three columns
HistLayoutThreeFromFour(npars) ==
  [nrows    |-> IF npars < 10 THEN (npars - 1) \div 3 + 1
                ELSE (npars - 1) \div 4 + 1,
   ncolumns |-> IF npars > 9 THEN 4
                ELSE IF npars >= 4 THEN 3
                ELSE ((npars + 2) \div 3) + ((npars + 2) % 3)]

\* HistLayout with the rows of four columns for every npars
HistLayoutRowsOfFour(npars) ==
  [nrows    |-> (npars - 1) \div 4 + 1,
   ncolumns |-> IF npars > 9 THEN 4
                ELSE IF npars > 4 THEN 3
                ELSE ((npars + 2) \div 3) + ((npars + 2) % 3)]

\* nrows and ncolumns; "/" between two ints is Python 2's floor division
HistLayout(npars) ==
  [nrows    |-> IF npars < 10 THEN (npars - 1) \div 3 + 1
                ELSE (npars - 1) \div 4 + 1,
   ncolumns |-> IF npars > 9 THEN 4
                ELSE IF npars > 4 THEN 3
                ELSE ((npars + 2) \div 3) + ((npars + 2) % 3)]

\* The commands of the first loop's pass for parameter i.  The shaded HPD
\* region comes from mu.credregion and is kept as a command without data.
HistPanel(c, posterior, lay, i) ==
  LET sub == <<lay.nrows, lay.ncolumns, i + 1>>
  IN  <<[cmd |-> "hist", subplot |-> sub, yticks |-> (i % lay.ncolumns = 0),
         vals |-> Histogram1d(Stride(Column(posterior, i), c.thinning), HistBins)]>>
      \o (IF c.percentile # None
          THEN <<[cmd |-> "fill_between", subplot |-> sub]>> ELSE <<>>)

\* maxylim after the first loop; the top of a panel's y axis is taken to be
\* its tallest bin (pyplot's autoscale margin is left out)
HistMaxylim(c, posterior, npars) ==
  LET F[n \in 0..npars] ==
        IF n = 0 THEN 0
        ELSE Max(F[n - 1],
                 Amax(Histogram1d(Stride(Column(posterior, n - 1), c.thinning),
                                  HistBins)))
  IN  F[npars]

\* the figure after both loops
HistDraw(fig, c, posterior, npars, lay) ==
  LET maxylim == HistMaxylim(c, posterior, npars)
      F[n \in 0..npars] ==
        IF n = 0 THEN fig ELSE F[n - 1] \o HistPanel(c, posterior, lay, n - 1)
      G[n \in 0..npars] ==
        IF n = 0 THEN F[npars]
        ELSE Append(G[n - 1], [cmd |-> "ylim", subplot |-> <<lay.nrows, lay.ncolumns, n>>,
                               lim |-> <<0, maxylim>>])
  IN  G[npars]

histogram ==
  /\ pc = "call"
  /\ call.op = "histogram"
  /\ LET posterior == HistPosterior(call)
         npars     == Len(posterior[1])
         lay       == HistLayout(npars)
         fig       == HistDraw(Clf(figs[call.fignum]), call, posterior, npars, lay)
     IN  /\ locals' = [npars |-> npars, nrows |-> lay.nrows, ncolumns |-> lay.ncolumns]
         /\ figs' = [figs EXCEPT ![call.fignum] = fig]
         /\ files' = Savefig(files, call.savefile, fig)
  /\ pc' = "done"
  /\ UNCHANGED call

--------------------------------------------------------------------------
(* RMS                                                                    *)

\* a / b elementwise, each value the quotient <<a[k], b[k]>>
Quotients(a, b) == [k \in 1..Len(a) |-> <<a[k], b[k]>>]

\* np.amax of an array of quotients with positive denominators
QAmax(q) ==
  q[CHOOSE m \in 1..Len(q) : \A k \in 1..Len(q) : q[k][1] * q[m][2] <= q[m][1] * q[k][2]]

\* "if np.size(rms) <= 1: return"
RMSSkips(c) == Len(c.rms) <= 1

\* RMSYran without "if ratio:"
RMSYranNoRatio(c) ==
  IF c.yran = None
  THEN LET lo == Amin([k \in 1..Len(c.rms) |-> c.rms[k] - c.rmslo[k]])
           hi == Amax([k \in 1..Len(c.rms) |-> c.rms[k] + c.rmshi[k]])
       IN  <<<<Amin(<<lo, c.stderr[Len(c.stderr)]>>), 1>>, <<hi, 1>>>>
  ELSE c.yran

\* RMSYran without the lowering of yran[0] to stderr[-1]
RMSYranNoStderr(c) ==
  IF c.yran = None
  THEN LET lo  == Amin([k \in 1..Len(c.rms) |-> c.rms[k] - c.rmslo[k]])
           hi  == Amax([k \in 1..Len(c.rms) |-> c.rms[k] + c.rmshi[k]])
           top == QAmax(Quotients(c.rms, c.stderr))
       IN  IF c.ratio THEN <<<<0, 1>>, <<top[1] + top[2], top[2]>>>>
           ELSE <<<<lo, 1>>, <<hi, 1>>>>
  ELSE c.yran

\* yran after "if yran is None:", its two ends quotients
RMSYran(c) ==
  IF c.yran = None
  THEN LET lo   == Amin([k \in 1..Len(c.rms) |-> c.rms[k] - c.rmslo[k]])
           hi   == Amax([k \in 1..Len(c.rms) |-> c.rms[k] + c.rmshi[k]])
           yran == <<<<Amin(<<lo, c.stderr[Len(c.stderr)]>>), 1>>, <<hi, 1>>>>
           top  == QAmax(Quotients(c.rms, c.stderr))
       IN  IF c.ratio THEN <<<<0, 1>>, <<top[1] + top[2], top[2]>>>> ELSE yran
  ELSE c.yran

\* cadence after "if cadence is None:"
RMSCadence(c) == IF c.cadence = None THEN 1 ELSE c.cadence[1]

\* xran after "if xran is None:"
RMSXran(c) ==
  IF c.xran = None
  THEN <<RMSCadence(c), Amax([k \in 1..Len(c.binsz) |-> c.binsz[k] * RMSCadence(c)])>>
  ELSE c.xran

\* the figure after the plotting commands
RMSDraw(fig, c, yran, xran) ==
  LET cadence == RMSCadence(c)
      x       == [k \in 1..Len(c.binsz) |-> c.binsz[k] * cadence]
      sub     == <<1, 1, 1>>
      lines(t) == [k \in 1..Len(c.timepoints) |->
                    [cmd |-> "vlines", subplot |-> sub, x |-> c.timepoints[k],
                     lim |-> yran]]
  IN  fig
      \o (IF c.ratio
          THEN <<[cmd |-> "errorbar", subplot |-> sub,
                  x |-> Stride(x, c.binstep),
                  y |-> Stride(Quotients(c.rms, c.stderr), c.binstep),
                  yerr |-> <<Stride(Quotients(c.rmslo, c.stderr), c.binstep),
                             Stride(Quotients(c.rmshi, c.stderr), c.binstep)>>],
                 [cmd |-> "semilogx", subplot |-> sub, x |-> xran, y |-> <<1, 1>>]>>
          ELSE <<[cmd |-> "errorbar", subplot |-> sub,
                  x |-> Stride(x, c.binstep),
                  y |-> Stride(c.rms, c.binstep),
                  yerr |-> <<Stride(c.rmslo, c.binstep), Stride(c.rmshi, c.binstep)>>],
                 [cmd |-> "loglog", subplot |-> sub, x |-> x, y |-> c.stderr],
                 [cmd |-> "legend", subplot |-> sub]>>)
      \o lines(c.timepoints)
      \o <<[cmd |-> "ylim", subplot |-> sub, lim |-> yran],
           [cmd |-> "xlim", subplot |-> sub, lim |-> xran]>>

RMS ==
  /\ pc = "call"
  /\ call.op = "RMS"
  /\ IF RMSSkips(call)
     THEN /\ locals' = [size |-> Len(call.rms)]
          /\ UNCHANGED <<figs, files>>
     ELSE LET yran == RMSYran(call)
              xran == RMSXran(call)
              fig  == RMSDraw(Clf(figs[call.fignum]), call, yran, xran)
          IN  /\ locals' = [yran |-> yran, xran |-> xran, cadence |-> RMSCadence(call)]
              /\ figs' = [figs EXCEPT ![call.fignum] = fig]
              /\ files' = Savefig(files, call.savefile, fig)
  /\ pc' = "done"
  /\ UNCHANGED call

--------------------------------------------------------------------------
(* modelfit                                                               *)

\* ModelfitBinsize without the "- 1"
ModelfitBinsizeNoMinus(n, nbins) == n \div nbins + 1

\* "binsize = int((np.size(data)-1)/nbins + 1)"
ModelfitBinsize(n, nbins) == (n - 1) \div nbins + 1

\* ba.binarray and ba.weightedbin: consecutive bins of binsize points, the
\* last one holding the points left over.  A bin is kept as the points it
\* averages.
Binned(s, binsize) ==
  [b \in 1..((Len(s) + binsize - 1) \div binsize) |->
     SubSeq(s, (b - 1) * binsize + 1, Min(b * binsize, Len(s)))]

\* the figure after the plotting commands
ModelfitDraw(fig, c, binsize) ==
  fig \o
  <<[cmd |-> "errorbar", subplot |-> <<"axes", 1>>,
     x |-> Binned(c.indparams, binsize),
     y |-> <<Binned(c.data, binsize), Binned(c.model, binsize)>>,
     yerr |-> Binned(c.uncert, binsize)],
    [cmd |-> "plot", subplot |-> <<"axes", 1>>,
     x |-> <<c.indparams[1], c.indparams[Len(c.indparams)]>>, y |-> <<0, 0>>],
    [cmd |-> "errorbar", subplot |-> <<"axes", 2>>,
     x |-> Binned(c.indparams, binsize),
     y |-> Binned(c.data, binsize),
     yerr |-> Binned(c.uncert, binsize)],
    [cmd |-> "plot", subplot |-> <<"axes", 2>>, x |-> c.indparams, y |-> c.model],
    [cmd |-> "legend", subplot |-> <<"axes", 2>>]>>

modelfit ==
  /\ pc = "call"
  /\ call.op = "modelfit"
  /\ LET binsize == ModelfitBinsize(Len(call.data), call.nbins)
         fig     == ModelfitDraw(Clf(figs[call.fignum]), call, binsize)
     IN  /\ locals' = [binsize |-> binsize]
         /\ figs' = [figs EXCEPT ![call.fignum] = fig]
         /\ files' = Savefig(files, call.savefile, fig)
  /\ pc' = "done"
  /\ UNCHANGED call

--------------------------------------------------------------------------
(* The caller                                                             *)

\* the caller makes its next call, any of `calls`
Invoke(calls) ==
  /\ pc = "done"
  /\ call' \in calls
  /\ pc' = "call"
  /\ UNCHANGED <<figs, files, locals>>

--------------------------------------------------------------------------
(* The callers' inputs                                                    *)

FigNums == {1, 2}
SaveFiles == {"plot.png"}

NoFigs == [f \in FigNums \cup {-10, -11, -12, -20, -22} |-> <<>>]
NoFiles == [f \in SaveFiles |-> None]

\* no call has been made: no figure, no file
Fresh ==
  /\ pc = "call"
  /\ figs = NoFigs
  /\ files = NoFiles
  /\ locals = None

\* a posterior whose entry (r, i) names its row and column
Tagged(nsamples, npars) ==
  [r \in 1..nsamples |-> [i \in 1..npars |-> 10 * i + r]]

\* trace(posterior, Zchain, thinning=, burnin=) with the default fignum
TraceCall(npars, Zchain, nsamples, thinning, burnin) ==
  [op |-> "trace", posterior |-> Tagged(nsamples, npars), Zchain |-> Zchain,
   thinning |-> thinning, burnin |-> burnin, fignum |-> -10, savefile |-> None]

\* Zchain holds -1 for the samples that belong to no chain
InitTrace ==
  /\ \/ \E n \in 1..MaxSamples, t \in 1..MaxThinning, b \in 0..MaxBurnin :
          \E Z \in [1..n -> (-1)..MaxChainId] : call = TraceCall(2, Z, n, t, b)
     \/ \E n \in 1..MaxSamples, t \in 1..MaxThinning, np \in 1..2 :
          call = TraceCall(np, None, n, t, 0)
  /\ Fresh

SpecTrace == InitTrace /\ [][trace]_vars

PairValues == {0, 1}
PairSamples == {1, 2}

\* pairwise(posterior, thinning=, nbins=, nlevels=, absolute_dens=)
PairwiseCall(posterior, thinning, nbins, nlevels, absolute_dens) ==
  [op |-> "pairwise", posterior |-> posterior, thinning |-> thinning,
   nbins |-> nbins, nlevels |-> nlevels, absolute_dens |-> absolute_dens,
   fignum |-> -11, savefile |-> None]

\* a thinning stride beyond the number of rows leaves the first row, as the
\* stride equal to it does
InitPairwise ==
  /\ \E n \in PairSamples, np \in 1..MaxPars, t \in PairSamples,
        nb \in 1..MaxBins, nl \in 1..MaxLevels, ad \in BOOLEAN :
       /\ t <= n
       /\ \E P \in [1..n -> [1..np -> PairValues]] :
            call = PairwiseCall(P, t, nb, nl, ad)
  /\ Fresh

SpecPairwise == InitPairwise /\ [][pairwise]_vars

HistValues == {0, 1, 2}

\* histogram(posterior, thinning=, percentile=); ndim is np.ndim(posterior)
HistogramCall(ndim, posterior, thinning, percentile) ==
  [op |-> "histogram", ndim |-> ndim, posterior |-> posterior,
   thinning |-> thinning, percentile |-> percentile,
   fignum |-> -12, savefile |-> None]

\* the parameters share their samples: the layout does not read them
InitHistogram ==
  /\ \E n \in 1..MaxHistSamples, t \in 1..2, pct \in {None, <<"0.68">>} :
       \E V \in [1..n -> HistValues] :
          \/ \E np \in 1..MaxHistPars :
               call = HistogramCall(2, [r \in 1..n |-> [i \in 1..np |-> V[r]]], t, pct)
          \/ call = HistogramCall(1, V, t, pct)
  /\ Fresh

SpecHistogram == InitHistogram /\ [][histogram]_vars

RmsValues == {1, 2}
StderrValues == {1, 4}
RmsErrors == {0, 1}

\* the arguments beside the five arrays, ratio and yran: the defaults, or
\* every one of them given
RMSOptions ==
  { [cadence |-> None, binstep |-> 1, timepoints |-> <<>>, xran |-> None],
    [cadence |-> <<2>>, binstep |-> 2, timepoints |-> <<3>>, xran |-> <<1, 8>>] }

\* RMS(binsz, rms, stderr, rmslo, rmshi, ...), the bin sizes 1, 2, ...
RMSCall(rms, stderr, rmslo, rmshi, ratio, yran, o) ==
  [op |-> "RMS", binsz |-> [k \in 1..Len(rms) |-> k], rms |-> rms,
   stderr |-> stderr, rmslo |-> rmslo, rmshi |-> rmshi, ratio |-> ratio,
   yran |-> yran, cadence |-> o.cadence, binstep |-> o.binstep,
   timepoints |-> o.timepoints, xran |-> o.xran,
   fignum |-> -20, savefile |-> None]

InitRMS ==
  /\ \E n \in 1..MaxRms, ra \in BOOLEAN, yr \in {None, <<<<1, 1>>, <<5, 1>>>>},
        o \in RMSOptions :
       \E r \in [1..n -> RmsValues], s \in [1..n -> StderrValues],
          lo \in [1..n -> RmsErrors], hi \in [1..n -> RmsErrors] :
         call = RMSCall(r, s, lo, hi, ra, yr, o)
  /\ Fresh

SpecRMS == InitRMS /\ [][RMS]_vars

\* modelfit(data, uncert, indparams, model, nbins=) for n data points
ModelfitCall(n, nbins) ==
  [op |-> "modelfit", data |-> [k \in 1..n |-> 100 + k],
   uncert |-> [k \in 1..n |-> 1], indparams |-> [k \in 1..n |-> k],
   model |-> [k \in 1..n |-> 100], nbins |-> nbins,
   fignum |-> -22, savefile |-> None]

InitModelfit ==
  /\ \E n \in 1..MaxData, nb \in 1..MaxNbins : call = ModelfitCall(n, nb)
  /\ Fresh

SpecModelfit == InitModelfit /\ [][modelfit]_vars

\* the calls of a program that shares the figures FigNums among the five
\* renderers and saves some of them
Targets(calls) ==
  { [c EXCEPT !.fignum = f, !.savefile = sf] :
      c \in calls, f \in FigNums, sf \in {None} \cup {<<n>> : n \in SaveFiles} }

ProgramTrace ==
  Targets({TraceCall(1, None, 2, 1, 0), TraceCall(1, <<1, 0>>, 2, 1, 0)})

ProgramPairwise ==
  Targets({PairwiseCall(<<<<0>>, <<1>>>>, 1, 2, 2, FALSE),
           PairwiseCall(<<<<0, 1>>, <<1, 1>>>>, 1, 2, 2, FALSE)})

ProgramHistogram == Targets({HistogramCall(1, <<0, 2>>, 1, None)})

ProgramRMS ==
  LET defaults == CHOOSE o \in RMSOptions : o.cadence = None
  IN  Targets({RMSCall(<<2>>, <<1>>, <<0>>, <<0>>, FALSE, None, defaults),
               RMSCall(<<2, 1>>, <<4, 1>>, <<0, 0>>, <<0, 0>>, FALSE, None, defaults)})

ProgramModelfit == Targets({ModelfitCall(2, 1)})

Init ==
  /\ \/ call \in ProgramTrace
     \/ call \in ProgramPairwise
     \/ call \in ProgramHistogram
     \/ call \in ProgramRMS
     \/ call \in ProgramModelfit
  /\ Fresh

Next ==
  \/ trace
  \/ pairwise
  \/ histogram
  \/ RMS
  \/ modelfit
  \/ Invoke(ProgramTrace)
  \/ Invoke(ProgramPairwise)
  \/ Invoke(ProgramHistogram)
  \/ Invoke(ProgramRMS)
  \/ Invoke(ProgramModelfit)

Spec == Init /\ [][Next]_vars

--------------------------------------------------------------------------
(* Properties of trace                                                    *)

Returned(op) == pc = "done" /\ call.op = op

\* the elements of a finite set of integers, ascending
RECURSIVE Ascending(_)
Ascending(S) ==
  IF S = {} THEN <<>>
  ELSE LET m == CHOOSE x \in S : \A y \in S : x <= y
       IN  <<m>> \o Ascending(S \ {m})

RECURSIVE Concat(_)
Concat(ss) == IF ss = <<>> THEN <<>> ELSE Head(ss) \o Concat(Tail(ss))

\* the rows (1-based) of chain c that are behind its first burnin rows
KeptRows(Z, burnin, c) ==
  { r \in 1..Len(Z) :
      /\ Z[r] = c
      /\ Cardinality({q \in 1..(r - 1) : Z[q] = c}) >= burnin }

\* the kept rows by ascending chain id, in input order inside each chain
KeptOrder(Z, burnin) ==
  Concat([c \in 1..(Amax(Z) + 1) |-> Ascending(KeptRows(Z, burnin, c - 1))])

\* every step-th element of s, starting at its first
EveryNth(s, step) ==
  Take(s, Ascending({k \in 0..(Len(s) - 1) : k % step = 0}))

PlotsOf(fig, what) == SelectSeq(fig, LAMBDA a : a.cmd = what)

\* C2: with a chain-index vector, exactly the first burnin rows of every
\* chain 0..max(Zchain) are discarded, the kept rows are ordered by
\* ascending chain id with the input order kept inside each chain, and the
\* series plotted for each parameter is every thinning-th row of that order.
TraceBurninSortThin ==
  (Returned("trace") /\ call.Zchain # None) =>
    LET order == KeptOrder(call.Zchain, call.burnin)
        lines == PlotsOf(figs[call.fignum], "plot")
    IN  /\ locals.posterior = Take(call.posterior, [k \in 1..Len(order) |-> order[k] - 1])
        /\ Len(lines) = locals.npars
        /\ \A i \in 1..Len(lines) :
             lines[i].y = EveryNth([k \in 1..Len(order) |-> call.posterior[order[k]][i]],
                                   call.thinning)

\* C2 witness: an unsorted chain vector, a chain shorter than burnin beside
\* a longer one, and a thinning stride that drops rows
TraceBurninSortThinWitness ==
  /\ Returned("trace") /\ call.Zchain # None
  /\ call.burnin = 1 /\ call.thinning = 2
  /\ call.Zchain = <<1, 0, 1, 1>>
  /\ PlotsOf(figs[call.fignum], "plot")[1].y = <<13>>

\* the chain ids of the plotted series
PlottedChainIds ==
  LET order == KeptOrder(call.Zchain, call.burnin)
  IN  EveryNth([k \in 1..Len(order) |-> call.Zchain[order[k]]], call.thinning)

\* the chains with a sample left after the burn-in removal
SurvivingChains ==
  { c \in 0..Amax(call.Zchain) : KeptRows(call.Zchain, call.burnin, c) # {} }

\* one separator per chain of `chains` but the last, at the 0-based plotted
\* index of the last plotted sample of that chain
SeparatorsMark(x, chains) ==
  LET ids  == PlottedChainIds
      last(c) == CHOOSE p \in 0..(Len(ids) - 1) :
                   ids[p + 1] = c /\ \A q \in (p + 1)..(Len(ids) - 1) : ids[q + 1] # c
      top  == CHOOSE c \in chains : \A d \in chains : d <= c
  IN  /\ Len(x) = IF chains = {} THEN 0 ELSE Cardinality(chains) - 1
      /\ \A c \in chains : c # top =>
           /\ \E p \in 0..(Len(ids) - 1) : ids[p + 1] = c
           /\ \E k \in 1..Len(x) : x[k] = last(c)

\* C3 as stated: one separator between each two consecutive chains that
\* have samples left after the burn-in removal
TraceSeparatorsAllSurviving ==
  (Returned("trace") /\ call.Zchain # None) =>
    \A k \in 1..Len(PlotsOf(figs[call.fignum], "vlines")) :
      SeparatorsMark(PlotsOf(figs[call.fignum], "vlines")[k].x, SurvivingChains)

\* C3 amended: one separator between each two consecutive chains that have
\* a sample in the plotted (thinned) series, at the plotted index of the
\* last plotted sample of the earlier chain; every parameter's subplot
\* carries them.
TraceSeparatorsPlotted ==
  (Returned("trace") /\ call.Zchain # None) =>
    LET seps == PlotsOf(figs[call.fignum], "vlines")
    IN  /\ Len(seps) = locals.npars
        /\ \A k \in 1..Len(seps) :
             SeparatorsMark(seps[k].x,
                            {PlottedChainIds[p] : p \in 1..Len(PlottedChainIds)})

\* C3 witness: thinning skips a surviving chain, two separators are drawn
TraceSeparatorsPlottedWitness ==
  /\ Returned("trace") /\ call.Zchain # None
  /\ call.thinning = 2 /\ call.burnin = 0
  /\ call.Zchain = <<2, 0, 1, -1>>
  /\ PlotsOf(figs[call.fignum], "vlines")[1].x = <<0>>

--------------------------------------------------------------------------
(* Properties of pairwise                                                 *)

\* the parameter pair <<i, j>> a cell of the (npars-1) x (npars-1) grid
\* stands for: its column is parameter i, its row parameter j - 1
PairOfCell(sub) == <<(sub[3] - 1) % sub[2], (sub[3] - 1) \div sub[2] + 1>>

\* the counts of the thinned samples of parameters i (x) and j (y): row b,
\* column a holds the samples in y-bin b-1 and x-bin a-1
PairCounts(c, i, j) ==
  LET rows == {r \in 1..Len(c.posterior) : (r - 1) % c.thinning = 0}
      xs   == {c.posterior[r][i + 1] : r \in rows}
      ys   == {c.posterior[r][j + 1] : r \in rows}
      lo(S) == CHOOSE m \in S : \A v \in S : m <= v
      hi(S) == CHOOSE m \in S : \A v \in S : m >= v
  IN  [b \in 1..c.nbins |-> [a \in 1..c.nbins |->
        Cardinality({r \in rows :
          /\ BinOf(c.posterior[r][i + 1], lo(xs), hi(xs), c.nbins) = a - 1
          /\ BinOf(c.posterior[r][j + 1], lo(ys), hi(ys), c.nbins) = b - 1})]]

\* C1: for n >= 2 parameters pairwise draws n(n-1)/2 contour panels, one
\* for each pair 0 <= i < j <= n-1 and none twice, each from the histogram
\* of its own pair; for n = 1 it draws nothing.
PairwisePanels ==
  Returned("pairwise") =>
    LET n      == Len(call.posterior[1])
        panels == PlotsOf(figs[call.fignum], "contourf")
        pairs  == {PairOfCell(panels[k].subplot) : k \in 1..Len(panels)}
    IN  IF n = 1 THEN figs[call.fignum] = <<>>
        ELSE /\ 2 * Len(panels) = n * (n - 1)
             /\ pairs = {<<i, j>> \in (0..(n - 1)) \X (0..(n - 1)) : i < j}
             /\ Cardinality(pairs) = Len(panels)
             /\ \A k \in 1..Len(panels) :
                  /\ panels[k].subplot[1] = n - 1 /\ panels[k].subplot[2] = n - 1
                  /\ panels[k].hist =
                       PairCounts(call, PairOfCell(panels[k].subplot)[1],
                                        PairOfCell(panels[k].subplot)[2])

\* C1 witness: three parameters, three panels with three different
\* histograms
PairwisePanelsWitness ==
  /\ Returned("pairwise")
  /\ Len(call.posterior[1]) = 3
  /\ LET panels == PlotsOf(figs[call.fignum], "contourf")
     IN  /\ Len(panels) = 3
         /\ panels[1].hist # panels[2].hist
         /\ panels[1].hist # panels[3].hist
         /\ panels[2].hist # panels[3].hist

QEq(a, b) == a[1] * b[2] = b[1] * a[2]
QMinus(a, b) == <<a[1] * b[2] - b[1] * a[2], a[2] * b[2]>>

\* levels is 0 followed by nlevels linearly spaced values from 1 up to top
LevelsUpTo(levels, nlevels, top) ==
  /\ Len(levels) = nlevels + 1
  /\ QEq(levels[1], <<0, 1>>)
  /\ QEq(levels[2], <<1, 1>>)
  /\ nlevels >= 2 => QEq(levels[nlevels + 1], <<top, 1>>)
  /\ \A t \in 2..(nlevels - 1) :
       QEq(QMinus(levels[t + 1], levels[t]), QMinus(levels[t + 2], levels[t + 1]))

\* the upper end of the levels of panel k when it lies `above` over the
\* largest bin count (of the panel, or of all panels with absolute_dens)
LevelsTop(panels, k, above) ==
  above + IF call.absolute_dens
          THEN Amax([q \in 1..Len(panels) |-> Amax2d(panels[q].hist)])
          ELSE Amax2d(panels[k].hist)

\* C9 as stated: the levels run from 1 up to the largest bin count
PairwiseLevelsToMaxCount ==
  Returned("pairwise") =>
    LET panels == PlotsOf(figs[call.fignum], "contourf")
    IN  \A k \in 1..Len(panels) :
          LevelsUpTo(panels[k].levels, call.nlevels, LevelsTop(panels, k, 0))

\* C9 amended: the fill levels of a panel are 0 followed by nlevels
\* linearly spaced values from 1 up to the panel's largest bin count plus
\* one (for nlevels = 1, the value 1 alone); with absolute_dens up to the
\* largest bin count of all panels plus one, the same for every panel; and
\* lmax has an entry for every panel index used.
PairwiseLevels ==
  Returned("pairwise") =>
    LET panels == PlotsOf(figs[call.fignum], "contourf")
    IN  /\ \A k \in 1..Len(panels) :
             LevelsUpTo(panels[k].levels, call.nlevels, LevelsTop(panels, k, 1))
        /\ Len(panels) >= 1 => Len(locals.lmax) >= Len(panels)

\* C9 witness: absolute_dens with panels of different largest bin counts
PairwiseLevelsWitness ==
  /\ Returned("pairwise")
  /\ call.absolute_dens /\ call.nlevels = 3
  /\ LET panels == PlotsOf(figs[call.fignum], "contourf")
     IN  /\ Len(panels) = 3
         /\ Amax2d(panels[1].hist) = 1
         /\ Amax2d(panels[3].hist) = 2
         /\ panels[1].levels = panels[3].levels

--------------------------------------------------------------------------
(* Properties of histogram                                                *)

HistNpars == IF call.ndim = 1 THEN 1 ELSE Len(call.posterior[1])

\* C7 as stated: npars panels, in 3 columns for npars <= 9 and 4 beyond
HistogramColumnsThreeOrFour ==
  Returned("histogram") =>
    LET panels == PlotsOf(figs[call.fignum], "hist")
    IN  /\ Len(panels) = HistNpars
        /\ \A k \in 1..Len(panels) :
             panels[k].subplot[2] = IF HistNpars <= 9 THEN 3 ELSE 4

\* C7 amended: histogram draws npars panels; the grid has 1, 2, 3 and 2
\* columns for npars = 1, 2, 3 and 4, 3 columns for npars = 5..9 and 4
\* columns for npars > 9.
HistogramColumns ==
  Returned("histogram") =>
    LET panels == PlotsOf(figs[call.fignum], "hist")
        n      == HistNpars
    IN  /\ Len(panels) = n
        /\ \A k \in 1..Len(panels) :
             panels[k].subplot[2] =
               CASE n = 1 -> 1 [] n = 2 -> 2 [] n = 3 -> 3 [] n = 4 -> 2
                 [] n \in 5..9 -> 3 [] OTHER -> 4

\* C7 witness: four parameters on a grid of two columns
HistogramColumnsWitness ==
  /\ Returned("histogram")
  /\ HistNpars = 4
  /\ Len(PlotsOf(figs[call.fignum], "hist")) = 4
  /\ PlotsOf(figs[call.fignum], "hist")[4].subplot = <<2, 2, 4>>

\* C10: for every npars >= 1 the grid has at least npars cells, every
\* subplot index i+1 is a cell of it, and no two parameters share a cell.
HistogramCapacity ==
  Returned("histogram") =>
    LET panels == PlotsOf(figs[call.fignum], "hist")
        limits == PlotsOf(figs[call.fignum], "ylim")
        n      == HistNpars
        rows   == IF n < 10 THEN (n - 1) \div 3 + 1 ELSE (n - 1) \div 4 + 1
    IN  /\ Len(panels) = n /\ Len(limits) = n
        /\ \A k \in 1..n :
             /\ panels[k].subplot[1] = rows
             /\ panels[k].subplot[1] * panels[k].subplot[2] >= n
             /\ panels[k].subplot[3] \in 1..(panels[k].subplot[1] * panels[k].subplot[2])
             /\ panels[k].subplot[3] = k
             /\ limits[k].subplot = panels[k].subplot
        /\ \A k, q \in 1..n : k # q => panels[k].subplot[3] # panels[q].subplot[3]

\* C10 witness: nine parameters fill the grid of three rows and columns
HistogramCapacityWitness ==
  /\ Returned("histogram")
  /\ HistNpars = 9
  /\ PlotsOf(figs[call.fignum], "hist")[9].subplot = <<3, 3, 9>>

--------------------------------------------------------------------------
(* Properties of RMS                                                      *)

QLeq(a, b) == a[1] * b[2] <= b[1] * a[2]

\* the y range handed to plt.ylim
RMSYlim == PlotsOf(figs[call.fignum], "ylim")[1].lim

\* C5 as stated: in ratio mode the y range starts at 0, whatever the other
\* arguments are, a caller's yran included
RMSRatioFromZeroAlways ==
  (Returned("RMS") /\ Len(call.rms) >= 2 /\ call.ratio) =>
    QEq(RMSYlim[1], <<0, 1>>)

\* C5 amended: in ratio mode with at least two rms values and yran not
\* supplied, the y range applied to the plot has lower bound exactly 0.
RMSRatioFromZero ==
  (Returned("RMS") /\ Len(call.rms) >= 2 /\ call.ratio /\ call.yran = None) =>
    /\ Len(PlotsOf(figs[call.fignum], "ylim")) = 1
    /\ QEq(RMSYlim[1], <<0, 1>>)

\* C5 witness: ratio mode, default yran, an uncertainty band that stays
\* above 0
RMSRatioFromZeroWitness ==
  /\ Returned("RMS") /\ call.ratio /\ call.yran = None
  /\ call.rms = <<2, 2>> /\ call.rmslo = <<0, 0>> /\ call.stderr = <<1, 1>>
  /\ RMSYlim = <<<<0, 1>>, <<3, 1>>>>

\* the default y range holds the uncertainty band of the rms
RMSBandInside(lim) ==
  \A k \in 1..Len(call.rms) :
    /\ QLeq(lim[1], <<call.rms[k] - call.rmslo[k], 1>>)
    /\ QLeq(<<call.rms[k] + call.rmshi[k], 1>>, lim[2])

\* C6 as stated: the default range of the absolute mode holds the band
\* and the last value of stderr
RMSDefaultHoldsStderr ==
  (Returned("RMS") /\ Len(call.rms) >= 2 /\ ~call.ratio /\ call.yran = None) =>
    /\ RMSBandInside(RMSYlim)
    /\ QLeq(RMSYlim[1], <<call.stderr[Len(call.stderr)], 1>>)
    /\ QLeq(<<call.stderr[Len(call.stderr)], 1>>, RMSYlim[2])

\* C6 amended: in absolute mode with yran not supplied the default range
\* [lo, hi] holds the whole uncertainty band of the rms, and its lower end
\* is lowered to stderr[-1] when that lies below the band (lo <=
\* stderr[-1]); hi is the top of the band, stderr[-1] may lie above it.
RMSDefaultRange ==
  (Returned("RMS") /\ Len(call.rms) >= 2 /\ ~call.ratio /\ call.yran = None) =>
    /\ RMSBandInside(RMSYlim)
    /\ QLeq(RMSYlim[1], <<call.stderr[Len(call.stderr)], 1>>)
    /\ \E k \in 1..Len(call.rms) :
         QEq(RMSYlim[2], <<call.rms[k] + call.rmshi[k], 1>>)

\* C6 witness: the last stderr lies below the band and sets the lower end
RMSDefaultRangeWitness ==
  /\ Returned("RMS") /\ ~call.ratio /\ call.yran = None
  /\ call.rms = <<2, 2>> /\ call.rmslo = <<0, 0>> /\ call.rmshi = <<1, 0>>
  /\ call.stderr = <<4, 1>>
  /\ RMSYlim = <<<<1, 1>>, <<3, 1>>>>

--------------------------------------------------------------------------
(* Properties of modelfit                                                 *)

\* ceil(a / b) for a >= 0, b >= 1
CeilDiv(a, b) == CHOOSE q \in 0..a : q * b >= a /\ (q - 1) * b < a

\* C8: for n >= 1 and nbins >= 1 the bin size is ceil(n / nbins), and the
\* number of bins ceil(n / binsize) does not exceed nbins.
ModelfitBinsizeCeil ==
  Returned("modelfit") =>
    /\ locals.binsize = CeilDiv(Len(call.data), call.nbins)
    /\ CeilDiv(Len(call.data), locals.binsize) <= call.nbins

\* C8 witness: nbins divides n; and fewer bins than nbins come out
ModelfitBinsizeCeilWitness ==
  /\ Returned("modelfit")
  /\ Len(call.data) = 12 /\ call.nbins = 4
  /\ locals.binsize = 3

--------------------------------------------------------------------------
(* The figures                                                            *)

\* the calls that draw nothing: pairwise of one parameter, RMS of fewer
\* than two rms values
Skipped(c) ==
  \/ c.op = "pairwise" /\ Len(c.posterior[1]) = 1
  \/ c.op = "RMS" /\ Len(c.rms) < 2

\* what a call draws on an empty figure
Rendered(c) ==
  CASE c.op = "trace" -> TraceDraw(<<>>, c, TraceLocals(c))
    [] c.op = "pairwise" ->
         LET npars == Len(c.posterior[1])
             g     == Gather(c, npars)
         IN  PairLoop(<<>>, c, npars, g, Lmax(c, npars, g)).fig
             \o <<[cmd |-> "colorbar", nlevels |-> c.nlevels]>>
    [] c.op = "histogram" ->
         HistDraw(<<>>, c, HistPosterior(c), Len(HistPosterior(c)[1]),
                  HistLayout(Len(HistPosterior(c)[1])))
    [] c.op = "RMS" -> RMSDraw(<<>>, c, RMSYran(c), RMSXran(c))
    [] c.op = "modelfit" ->
         ModelfitDraw(<<>>, c, ModelfitBinsize(Len(c.data), c.nbins))

\* C4: over any sequence of calls, a call that draws leaves at its fignum
\* exactly what it draws on a cleared figure, saves that when savefile is
\* given, and leaves every other figure and file alone; a skipped call
\* changes no figure and writes no file, even with a savefile.
FigureConvention ==
  [][ (pc = "call" /\ pc' = "done") =>
        IF Skipped(call)
        THEN figs' = figs /\ files' = files
        ELSE /\ figs' = [figs EXCEPT ![call.fignum] = Rendered(call)]
             /\ files' = IF call.savefile = None THEN files
                         ELSE [files EXCEPT ![call.savefile[1]] = <<Rendered(call)>>]
    ]_vars

\* C4 witness: a skipped pairwise call with a savefile has returned, its
\* figure still holds an earlier trace and the file an earlier histogram
FigureConventionWitness ==
  /\ Returned("pairwise") /\ Skipped(call) /\ call.savefile # None
  /\ figs[call.fignum] # <<>>
  /\ figs[call.fignum][1].cmd = "plot"
  /\ files[call.savefile[1]] # None
  /\ files[call.savefile[1]][1][1].cmd = "hist"

==========================================================================
